---- MODULE Spec2Model ----
(***************************************************************************)
(* Model of the Steam download monitor (src/monitor.py): the cursor-tracked *)
(* reader (_read_tail, _read_from), the chunk parser (_parse_chunk), the    *)
(* state merger (_merge), the report builder (_build_report) and the driver *)
(* (SteamDownloadMonitor.run / _load_initial / _tick), together with the    *)
(* external, uncoordinated writer of content_log.txt.                       *)
(*                                                                          *)
(* Text is a sequence of tokens.  One token stands for a run of bytes of    *)
(* the log that the regular expressions of monitor.py treat as a unit, and  *)
(* counts as ONE unit of file offset: offsets, sizes and the tail windows   *)
(* are measured in tokens.  A token is a record [k, id, n]:                 *)
(*   TS                     "[2024-01-01 10:00:00] "                        *)
(*   NL                     "\n"                                            *)
(*   Rate(n)                "Current download rate: <n/100> Mbps"           *)
(*   StartingUpdate(id, a)  "Starting update AppID <id>: download <a> / "   *)
(*   UpdateStarted(id, a)   "AppID <id> update started : download <a> / "   *)
(*   Digit(d)               one decimal digit                               *)
(*   StateChanged(id)       "AppID <id> state changed : "                   *)
(*   AppUpdateChanged(id)   "AppID <id> App update changed : "              *)
(*   UpdateCanceled(id)     "AppID <id> update canceled : "                 *)
(*   FinishedUpdate(id)     "AppID <id> finished update"                    *)
(*   Kw(w)                  a status word of a state text: "Downloading",   *)
(*                          "downloading", "Suspended", "Fully Installed",  *)
(*                          "fully installed", "Update Required"            *)
(***************************************************************************)
EXTENDS Integers, Sequences, FiniteSets, TLC

Tok(k, id, n) == [k |-> k, id |-> id, n |-> n]

TS == Tok("TS", 0, 0)
NL == Tok("NL", 0, 0)
Rate(n) == Tok("Rate", 0, n)
StartingUpdate(id, a) == Tok("StartingUpdate", id, a)
UpdateStarted(id, a) == Tok("UpdateStarted", id, a)
Digit(d) == Tok("Digit", 0, d)
StateChanged(id) == Tok("StateChanged", id, 0)
AppUpdateChanged(id) == Tok("AppUpdateChanged", id, 0)
UpdateCanceled(id) == Tok("UpdateCanceled", id, 0)
FinishedUpdate(id) == Tok("FinishedUpdate", id, 0)
Kw(w) == Tok(w, 0, 0)

\* Python's None / an optional value: <<>> is None, <<v>> is the value v.
None == <<>>
Some(v) == <<v>>

Min(S) == CHOOSE x \in S : \A y \in S : x <= y

(***************************************************************************)
(* Dictionaries.  A dict is a function; dict.update(info) overwrites        *)
(* exactly the keys of info.                                                *)
(***************************************************************************)
EmptyDict == <<>>

DictUpdate(d, info) ==
    [key \in (DOMAIN d) \cup (DOMAIN info) |->
        IF key \in DOMAIN info THEN info[key] ELSE d[key]]

DictPut(d, key, val) ==
    [x \in (DOMAIN d) \cup {key} |-> IF x = key THEN val ELSE d[x]]

\* _empty_app()
EmptyApp == [downloaded |-> 0, total |-> 0, paused |-> FALSE, downloading |-> FALSE]

(***************************************************************************)
(* The regular expressions, over tokens.  re.search finds the leftmost      *)
(* match; each operator gives the set of token indexes of `rest` where the  *)
(* pattern matches, and the code uses the least of them.                    *)
(***************************************************************************)

\* str.splitlines(): the lines of the text without their "\n"; a last piece
\* that no "\n" ends is a line as well, an empty last piece is not.
RECURSIVE SplitFrom(_, _, _, _)
SplitFrom(text, i, cur, acc) ==
    IF i > Len(text)
    THEN IF cur = <<>> THEN acc ELSE Append(acc, cur)
    ELSE IF text[i].k = "NL"
         THEN SplitFrom(text, i + 1, <<>>, Append(acc, cur))
         ELSE SplitFrom(text, i + 1, Append(cur, text[i]), acc)

SplitLines(text) == SplitFrom(text, 1, <<>>, <<>>)

\* RE_TIMESTAMP.match(line.strip()): the line starts with a timestamp.
TimestampMatches(line) == Len(line) > 0 /\ line[1].k = "TS"

\* m.group(2): what follows the timestamp.
RestOf(line) == SubSeq(line, 2, Len(line))

\* RE_CURRENT_RATE
CurrentRateAt(rest) == {p \in DOMAIN rest : rest[p].k = "Rate"}

\* A token whose text begins "AppID <id> " (the id followed by white space).
IsAppIdPrefix(t) ==
    t.k \in {"UpdateStarted", "StateChanged", "AppUpdateChanged",
             "UpdateCanceled", "FinishedUpdate"}

\* "fully installed" in any letter case (re.IGNORECASE).
IsFullyInstalledAnyCase(t) == t.k \in {"Fully Installed", "fully installed"}

\* RE_FULLY_INSTALLED: AppID <id> ... Fully Installed
FullyInstalledAt(rest) ==
    {p \in DOMAIN rest :
        /\ IsAppIdPrefix(rest[p])
        /\ \E q \in DOMAIN rest : q > p /\ IsFullyInstalledAnyCase(rest[q])}

\* RE_FINISHED_UPDATE
FinishedUpdateAt(rest) == {p \in DOMAIN rest : rest[p].k = "FinishedUpdate"}

\* (\d+) after "download <a> / ": the greedy run of digits from index p.
RECURSIVE DecimalFrom(_, _, _)
DecimalFrom(rest, p, acc) ==
    IF p <= Len(rest) /\ rest[p].k = "Digit"
    THEN DecimalFrom(rest, p + 1, acc * 10 + rest[p].n)
    ELSE acc

\* RE_DOWNLOAD_START / RE_DOWNLOAD_STARTED: the token and at least one digit.
DownloadAt(rest, kind) ==
    {p \in DOMAIN rest :
        rest[p].k = kind /\ p < Len(rest) /\ rest[p + 1].k = "Digit"}

\* Variant of WithTextAt: (.*) for (.+), an empty text matches as well.
WithTextAtOrNothing(rest, kind) == {p \in DOMAIN rest : rest[p].k = kind}

\* RE_UPDATE_CANCELED, RE_STATE, RE_APP_UPDATE_CHANGED: the token and (.+),
\* at least one more character on the line.
WithTextAt(rest, kind) ==
    {p \in DOMAIN rest : rest[p].k = kind /\ p < Len(rest)}

\* group(2) of those: the rest of the line.
TextAfter(rest, p) == SubSeq(rest, p + 1, Len(rest))

\* "suspended" in s.lower()
HasSuspended(s) == \E p \in DOMAIN s : s[p].k = "Suspended"

\* "Downloading" in s (literal case)
HasDownloading(s) == \E p \in DOMAIN s : s[p].k = "Downloading"

\* "Fully Installed" in s (literal case)
HasFullyInstalled(s) == \E p \in DOMAIN s : s[p].k = "Fully Installed"

\* if app_id not in out: out[app_id] = _empty_app()
Ensure(out, app_id) ==
    IF app_id \in DOMAIN out THEN out ELSE DictPut(out, app_id, EmptyApp)

\* out[app_id].update(**fields)
UpdateApp(out, app_id, fields) ==
    LET o == Ensure(out, app_id)
    IN  [o EXCEPT ![app_id] = DictUpdate(o[app_id], fields)]

(***************************************************************************)
(* _parse_chunk.  acc is the loop's state: out, last_speed_mbps and         *)
(* last_nonzero_speed_mbps.  Each branch ends in `continue` (or `break` of  *)
(* the last loop), so a line takes the first branch whose pattern matches.  *)
(***************************************************************************)

\* Variant of RateBranch: the last rate kept, a zero as well.
RateBranchLastWins(acc, rest) ==
    LET speed_val == rest[Min(CurrentRateAt(rest))].n
    IN  [acc EXCEPT !.last_speed_mbps = Some(speed_val),
                    !.last_nonzero_speed_mbps = Some(speed_val)]

\* lines 83-89: the rate branch
RateBranch(acc, rest) ==
    LET speed_val == rest[Min(CurrentRateAt(rest))].n
    IN  [acc EXCEPT !.last_speed_mbps = Some(speed_val),
                    !.last_nonzero_speed_mbps =
                        IF speed_val > 0 THEN Some(speed_val) ELSE @]

\* lines 92-98: RE_FULLY_INSTALLED.search(rest) or RE_FINISHED_UPDATE.search(rest)
CompletionBranch(acc, rest) ==
    LET p == IF FullyInstalledAt(rest) # {}
             THEN Min(FullyInstalledAt(rest))
             ELSE Min(FinishedUpdateAt(rest))
    IN  [acc EXCEPT !.out = UpdateApp(@, rest[p].id,
                                [downloading |-> FALSE, paused |-> FALSE])]

\* lines 100-111: RE_DOWNLOAD_START first, then RE_DOWNLOAD_STARTED
DownloadKind(rest) ==
    IF DownloadAt(rest, "StartingUpdate") # {} THEN "StartingUpdate"
    ELSE "UpdateStarted"

DownloadBranch(acc, rest) ==
    LET p == Min(DownloadAt(rest, DownloadKind(rest)))
    IN  [acc EXCEPT !.out = UpdateApp(@, rest[p].id,
                                [downloaded |-> rest[p].n,
                                 total |-> DecimalFrom(rest, p + 1, 0)])]

\* lines 113-122: RE_UPDATE_CANCELED
CanceledBranch(acc, rest) ==
    LET p == Min(WithTextAt(rest, "UpdateCanceled"))
        cancel_str == TextAfter(rest, p)
        o == Ensure(acc.out, rest[p].id)
    IN  [acc EXCEPT !.out =
            IF HasSuspended(cancel_str)
            THEN UpdateApp(o, rest[p].id, [paused |-> TRUE, downloading |-> FALSE])
            ELSE o]

\* Variant of StateFields: a line that states one of the two does not clear
\* the other.
StateFieldsNoClear(out, app_id, state_str) ==
    IF HasDownloading(state_str) /\ ~HasSuspended(state_str)
    THEN UpdateApp(out, app_id, [downloading |-> TRUE])
    ELSE IF HasSuspended(state_str)
    THEN UpdateApp(out, app_id, [paused |-> TRUE])
    ELSE IF HasFullyInstalled(state_str)
    THEN UpdateApp(out, app_id, [paused |-> FALSE, downloading |-> FALSE])
    ELSE out

\* Variant of StateFields: "Downloading" wins over "suspended".
StateFieldsDownloadingFirst(out, app_id, state_str) ==
    IF HasDownloading(state_str)
    THEN UpdateApp(out, app_id, [downloading |-> TRUE, paused |-> FALSE])
    ELSE IF HasSuspended(state_str)
    THEN UpdateApp(out, app_id, [paused |-> TRUE, downloading |-> FALSE])
    ELSE IF HasFullyInstalled(state_str)
    THEN UpdateApp(out, app_id, [paused |-> FALSE, downloading |-> FALSE])
    ELSE out

\* lines 132-149: what a state text writes
StateFields(out, app_id, state_str) ==
    IF HasDownloading(state_str) /\ ~HasSuspended(state_str)
    THEN UpdateApp(out, app_id, [downloading |-> TRUE, paused |-> FALSE])
    ELSE IF HasSuspended(state_str)
    THEN UpdateApp(out, app_id, [paused |-> TRUE, downloading |-> FALSE])
    ELSE IF HasFullyInstalled(state_str)
    THEN UpdateApp(out, app_id, [paused |-> FALSE, downloading |-> FALSE])
    ELSE out

\* lines 124-150: RE_STATE first, then RE_APP_UPDATE_CHANGED
StateKind(rest) ==
    IF WithTextAt(rest, "StateChanged") # {} THEN "StateChanged"
    ELSE "AppUpdateChanged"

StateBranch(acc, rest) ==
    LET p == Min(WithTextAt(rest, StateKind(rest)))
    IN  [acc EXCEPT !.out =
            StateFields(Ensure(@, rest[p].id), rest[p].id, TextAfter(rest, p))]

\* Variant of Classify: the state patterns tried before the completion ones.
ClassifyStateFirst(rest) ==
    IF CurrentRateAt(rest) # {} THEN "Rate"
    ELSE IF WithTextAt(rest, "StateChanged") # {}
            \/ WithTextAt(rest, "AppUpdateChanged") # {}
    THEN "State"
    ELSE IF FullyInstalledAt(rest) # {} \/ FinishedUpdateAt(rest) # {}
    THEN "Completion"
    ELSE IF DownloadAt(rest, "StartingUpdate") # {}
            \/ DownloadAt(rest, "UpdateStarted") # {}
    THEN "Progress"
    ELSE IF WithTextAt(rest, "UpdateCanceled") # {} THEN "Canceled"
    ELSE "NoMatch"

\* lines 83-126: which branch a line takes, the first whose pattern matches
Classify(rest) ==
    IF CurrentRateAt(rest) # {} THEN "Rate"
    ELSE IF FullyInstalledAt(rest) # {} \/ FinishedUpdateAt(rest) # {}
    THEN "Completion"
    ELSE IF DownloadAt(rest, "StartingUpdate") # {}
            \/ DownloadAt(rest, "UpdateStarted") # {}
    THEN "Progress"
    ELSE IF WithTextAt(rest, "UpdateCanceled") # {} THEN "Canceled"
    ELSE IF WithTextAt(rest, "StateChanged") # {}
            \/ WithTextAt(rest, "AppUpdateChanged") # {}
    THEN "State"
    ELSE "NoMatch"

\* lines 79-150: one iteration of the loop over the lines
ParseLine(acc, line) ==
    IF ~TimestampMatches(line) THEN acc
    ELSE LET rest == RestOf(line)
             branch == Classify(rest)
         IN  CASE branch = "Rate" -> RateBranch(acc, rest)
               [] branch = "Completion" -> CompletionBranch(acc, rest)
               [] branch = "Progress" -> DownloadBranch(acc, rest)
               [] branch = "Canceled" -> CanceledBranch(acc, rest)
               [] branch = "State" -> StateBranch(acc, rest)
               [] OTHER -> acc

RECURSIVE ParseLines(_, _, _)
ParseLines(acc, lines, j) ==
    IF j > Len(lines) THEN acc
    ELSE ParseLines(ParseLine(acc, lines[j]), lines, j + 1)

\* _parse_chunk(text) -> (out, speed)
ParseChunk(text) ==
    LET acc == ParseLines([out |-> EmptyDict, last_speed_mbps |-> None,
                           last_nonzero_speed_mbps |-> None],
                          SplitLines(text), 1)
    IN  [out |-> acc.out,
         speed |-> IF acc.last_nonzero_speed_mbps # None
                   THEN acc.last_nonzero_speed_mbps
                   ELSE acc.last_speed_mbps]

\* Variant of Merge: the counters of the snapshot added to those held.
MergeAccumulate(st, parsed) ==
    [app_id \in (DOMAIN st) \cup (DOMAIN parsed) |->
        IF app_id \in DOMAIN parsed
        THEN LET old == IF app_id \in DOMAIN st THEN st[app_id] ELSE EmptyApp
                 new == DictUpdate(old, parsed[app_id])
             IN  [new EXCEPT !.downloaded = old.downloaded + @,
                             !.total = old.total + @]
        ELSE st[app_id]]

(***************************************************************************)
(* _merge(state, parsed)                                                    *)
(***************************************************************************)
Merge(st, parsed) ==
    [app_id \in (DOMAIN st) \cup (DOMAIN parsed) |->
        IF app_id \in DOMAIN parsed
        THEN DictUpdate(IF app_id \in DOMAIN st THEN st[app_id] ELSE EmptyApp,
                        parsed[app_id])
        ELSE st[app_id]]

\* "if speed is not None: self.current_speed_mbps = speed"
NewSpeed(cur, speed) == IF speed # None THEN speed ELSE cur

(***************************************************************************)
(* _build_report.  The report is the sequence of its lines:                 *)
(*   [line |-> "NoActive"]                 "Активных загрузок нет."          *)
(*   [line |-> "Name", id]                 "  * <get_app_name(id)>"          *)
(*   [line |-> "Status", id, status, speed] "    Статус: .. | Скорость: .."  *)
(* status is "Pause" (Пауза) or "Download" (Загрузка); speed is None for    *)
(* "-" and Some(v) for the formatted rate.                                  *)
(***************************************************************************)
RLine(line, id, status, speed) ==
    [line |-> line, id |-> id, status |-> status, speed |-> speed]

NoActiveLine == RLine("NoActive", 0, "", None)

\* lines 175-176
IsDownloading(info) == info.downloading /\ ~info.paused
IsPaused(info) == info.paused

\* Variant of Relevant: the paused entries left out.
RelevantDownloadingOnly(st) == {aid \in DOMAIN st : IsDownloading(st[aid])}

\* lines 172-180: the keys of `relevant`
Relevant(st) == {aid \in DOMAIN st : IsDownloading(st[aid]) \/ IsPaused(st[aid])}

\* line 196: sorted(relevant.keys())
RECURSIVE Sorted(_)
Sorted(S) == IF S = {} THEN <<>> ELSE <<Min(S)>> \o Sorted(S \ {Min(S)})

\* lines 191-194
SpeedStr(current_speed_mbps) ==
    IF current_speed_mbps # None /\ current_speed_mbps[1] > 0
    THEN current_speed_mbps ELSE None

\* lines 197-202: the two lines of one entry
Entry(st, app_id, speed_str) ==
    << RLine("Name", app_id, "", None),
       RLine("Status", app_id,
             IF st[app_id].paused THEN "Pause" ELSE "Download",
             IF st[app_id].paused THEN None ELSE speed_str) >>

RECURSIVE Entries(_, _, _)
Entries(st, ids, speed_str) ==
    IF ids = <<>> THEN <<>>
    ELSE Entry(st, Head(ids), speed_str) \o Entries(st, Tail(ids), speed_str)

\* Variant of BuildReport: the leading notice of lines 188-189 left out.
BuildReportNoNotice(st, current_speed_mbps) ==
    IF Relevant(st) = {} THEN <<NoActiveLine>>
    ELSE Entries(st, Sorted(Relevant(st)), SpeedStr(current_speed_mbps))

\* lines 183-203: the lines of the report
BuildReport(st, current_speed_mbps) ==
    IF Relevant(st) = {} THEN <<NoActiveLine>>
    ELSE (IF \E aid \in Relevant(st) : IsDownloading(st[aid])
          THEN <<>> ELSE <<NoActiveLine>>)
         \o Entries(st, Sorted(Relevant(st)), SpeedStr(current_speed_mbps))

(***************************************************************************)
(* The cursor-tracked reader.  An offset o is the place before token o + 1. *)
(* `f` is the content of the file when it is opened; `size` was returned by *)
(* os.path.getsize before, and the writer may have appended in between.     *)
(***************************************************************************)
Max(a, b) == IF a >= b THEN a ELSE b

\* f.readline() at offset pos: the offset after the next "\n", or the end of
\* the file when no "\n" follows.
AfterReadline(f, pos) ==
    LET nls == {q \in (pos + 1)..Len(f) : f[q].k = "NL"}
    IN  IF nls # {} THEN Min(nls) ELSE Max(pos, Len(f))

\* f.read() at offset pos: everything up to the end of the file.
ReadToEnd(f, pos) == SubSeq(f, pos + 1, Len(f))

\* Variant of SeekAndSkip: the f.readline() of lines 50-51 left out.
SeekNoSkip(f, pos) == pos

\* f.seek(pos); if pos > 0: f.readline()   -- where the read then starts
SeekAndSkip(f, pos) == IF pos > 0 THEN AfterReadline(f, pos) ELSE pos

\* _read_tail line 47
TailStart(size, max_bytes) == Max(0, size - max_bytes)

\* _read_tail lines 48-52
ReadTailText(f, size, max_bytes) ==
    ReadToEnd(f, SeekAndSkip(f, TailStart(size, max_bytes)))

\* _read_from line 60
NoNewData(from_pos, size) == from_pos >= size

\* Variant of NoNewDataPos: the cursor is rewound to the start of the file.
NoNewDataPosZero(from_pos, size) == 0

\* Variant of NoNewDataPos: the file's size returned instead of from_pos.
NoNewDataPosIsSize(from_pos, size) == size

\* _read_from line 61: the position returned with no new data
NoNewDataPos(from_pos, size) == from_pos

\* _read_from lines 62-66: (f.read(), size)
ReadFromText(f, from_pos) == ReadToEnd(f, SeekAndSkip(f, from_pos))

\* Variant of ReadFromPos: the size taken for the length of what was read.
ReadFromPosSum(from_pos, size) == from_pos + size

\* _read_from line 66: the position returned with the text
ReadFromPos(from_pos, size) == size

(***************************************************************************)
(* Bounds and program constants.  The two tail windows are the program's    *)
(* TAIL_BYTES (2 MB) and TAIL_BEFORE_REPORT_BYTES (512 KB) scaled to token  *)
(* offsets: the wide seed window and the narrower per-tick window.          *)
(***************************************************************************)
MaxWritten == 9
MaxReports == 2
MaxShrinks == 1
MaxChunkLines == 2

TAIL_BYTES == 7
TAIL_BEFORE_REPORT_BYTES == 4

\* The lines the external writer appends in the driver's specification.
WriterLines ==
    { <<TS, StartingUpdate(1, 3), Digit(5), NL>>,
      <<TS, StateChanged(1), Kw("Downloading"), Kw("Suspended"), NL>>,
      <<TS, Rate(1250), NL>>,
      <<TS, Rate(0), NL>> }

\* How much of a line the writer's first write holds: all of it, or all
\* but its last word and the "\n".
FirstWrites(line) == {Len(line) - 2, Len(line)}

\* The lines of the chunks fed to the parser in the chunk specification.
ChunkLines ==
    { <<TS, StartingUpdate(1, 3), Digit(5), Digit(0), NL>>,
      <<TS, UpdateStarted(2, 1), Digit(7), NL>>,
      <<TS, StateChanged(1), Kw("Downloading"), NL>>,
      <<TS, StateChanged(1), Kw("Suspended"), NL>>,
      <<TS, AppUpdateChanged(2), Kw("Downloading"), NL>>,
      <<TS, StateChanged(2), Kw("Downloading"), Kw("Suspended"), NL>>,
      <<TS, StateChanged(3), Kw("Suspended"), NL>>,
      <<TS, StateChanged(3), Kw("Downloading"), NL>>,
      <<TS, FinishedUpdate(1), NL>>,
      <<TS, FinishedUpdate(3), NL>>,
      <<TS, Rate(1250), NL>>,
      <<TS, Rate(0), NL>> }

RECURSIVE ChunksOf(_)
ChunksOf(n) ==
    IF n = 0 THEN {<<>>}
    ELSE ChunksOf(n - 1)
         \cup {c \o l : c \in ChunksOf(n - 1) \ {<<>>}, l \in ChunkLines}
         \cup ChunkLines

\* The chunks: one to MaxChunkLines lines.
Chunks == ChunksOf(MaxChunkLines) \ {<<>>}

VARIABLES
    file,               \* content_log.txt: its content
    exists,             \* os.path.isfile(log_path)
    pending,            \* the writer's unwritten rest of the line it is appending
    shrinks,            \* how often the file was truncated or deleted so far
    written,            \* how many tokens the writer has appended so far
    pc,                 \* the driver's position in run / _load_initial / _tick
    read_pos,           \* self.read_pos, the cursor
    state,              \* self.state
    current_speed_mbps, \* self.current_speed_mbps
    text,               \* the local `text` / `tail` of _load_initial and _tick
    size,               \* the local `size` of _read_tail / _read_from
    from_pos,           \* the parameter from_pos of _read_from
    text_off,           \* offset in the file at which `text` begins
    i,                  \* the loop index of run: the reports printed so far
    num_reports,        \* run's parameter
    report,             \* the report _tick returned, until it is printed
    loads,              \* how often _load_initial was called
    frontier            \* offset from which appended lines are still to be read

envVars == <<file, exists, pending, shrinks, written>>
monVars == <<read_pos, state, current_speed_mbps>>
locVars == <<text, size, from_pos, text_off>>
runVars == <<i, num_reports, report, loads>>
vars == <<file, exists, pending, shrinks, written, pc, read_pos, state,
          current_speed_mbps, text, size, from_pos, text_off, i, num_reports,
          report, loads, frontier>>

Final == {"not_found", "done", "raised"}

\* The positions at which the driver's next step looks at the file (isfile,
\* getsize, open).  Its other steps touch only its own memory and commute with
\* the writer's, so the writer's steps are taken at these positions only.
FileSteps ==
    {"run", "li_tail_isfile", "li_tail_size", "li_tail_open", "li_pos_isfile",
     "li_pos_size", "t_rf_isfile", "t_rf_size", "t_rf_open", "t_tail_isfile",
     "t_tail_size", "t_tail_open"}

\* SteamDownloadMonitor.__init__ (lines 209-214)
Fresh ==
    /\ read_pos = 0
    /\ state = EmptyDict
    /\ current_speed_mbps = None
    /\ text = <<>>
    /\ size = 0
    /\ from_pos = 0
    /\ text_off = 0
    /\ i = 0
    /\ report = <<>>
    /\ loads = 0
    /\ frontier = 0

\* Before run; the log may or may not exist.
Init ==
    /\ file = <<>>
    /\ exists \in BOOLEAN
    /\ pending = <<>>
    /\ shrinks = 0
    /\ written = 0
    /\ pc = "run"
    /\ num_reports \in 1..MaxReports
    /\ Fresh

(***************************************************************************)
(* The external process: it appends lines, possibly a line in two writes,   *)
(* and may truncate or delete the file.  Appending to a missing file        *)
(* creates it.                                                              *)
(***************************************************************************)
WriterAppend ==
    /\ pc \in FileSteps
    /\ pending = <<>>
    /\ \E line \in WriterLines : \E cut \in FirstWrites(line) :
          /\ written + Len(line) <= MaxWritten
          /\ written' = written + Len(line)
          /\ file' = file \o SubSeq(line, 1, cut)
          /\ pending' = SubSeq(line, cut + 1, Len(line))
    /\ exists' = TRUE
    /\ UNCHANGED <<shrinks, pc, monVars, locVars, runVars, frontier>>

WriterFinish ==
    /\ pc \in FileSteps
    /\ pending # <<>>
    /\ file' = file \o pending
    /\ pending' = <<>>
    /\ UNCHANGED <<exists, shrinks, written, pc, monVars, locVars, runVars,
                   frontier>>

Truncate ==
    /\ pc \in FileSteps
    /\ exists /\ file # <<>>
    /\ shrinks < MaxShrinks
    /\ file' = <<>>
    /\ pending' = <<>>
    /\ shrinks' = shrinks + 1
    /\ UNCHANGED <<exists, written, pc, monVars, locVars, runVars, frontier>>

Delete ==
    /\ pc \in FileSteps
    /\ exists
    /\ shrinks < MaxShrinks
    /\ exists' = FALSE
    /\ file' = <<>>
    /\ pending' = <<>>
    /\ shrinks' = shrinks + 1
    /\ UNCHANGED <<written, pc, monVars, locVars, runVars, frontier>>

(***************************************************************************)
(* The driver.  Every os.path.isfile, os.path.getsize and open is a step of *)
(* its own: the writer runs between them.  getsize and open raise when the  *)
(* file is gone, and nothing in monitor.py catches that.                    *)
(***************************************************************************)

\* Variant of RunEntry: the check of lines 248-251 left out.
RunEntryNoCheck(isfile) == "li_tail_isfile"

\* run, lines 248-251
RunEntry(isfile) == IF isfile THEN "li_tail_isfile" ELSE "not_found"

\* run lines 248-256
RunStart ==
    /\ pc = "run"
    /\ pc' = RunEntry(exists)
    /\ loads' = IF RunEntry(exists) = "not_found" THEN loads ELSE loads + 1
    /\ UNCHANGED <<envVars, monVars, locVars, i, num_reports, report, frontier>>

\* run line 258, for i in range(num_reports): the next tick, or the end
LoopNext(idx, n) == IF idx < n THEN "t_rf_isfile" ELSE "done"

\* _read_tail line 44, called from _load_initial or from _tick
TailIsfile(at, sizeStep, after) ==
    /\ pc = at
    /\ IF exists
       THEN pc' = sizeStep /\ UNCHANGED <<text, text_off>>
       ELSE pc' = after /\ text' = <<>> /\ text_off' = 0
    /\ UNCHANGED <<envVars, monVars, size, from_pos, runVars, frontier>>

\* _read_tail line 46
TailSize(at, openStep) ==
    /\ pc = at
    /\ IF exists
       THEN pc' = openStep /\ size' = Len(file)
       ELSE pc' = "raised" /\ UNCHANGED size
    /\ UNCHANGED <<envVars, monVars, text, from_pos, text_off, runVars,
                   frontier>>

\* _read_tail lines 48-52
TailOpen(at, max_bytes, after) ==
    /\ pc = at
    /\ IF exists
       THEN /\ pc' = after
            /\ text' = ReadTailText(file, size, max_bytes)
            /\ text_off' = SeekAndSkip(file, TailStart(size, max_bytes))
       ELSE pc' = "raised" /\ UNCHANGED <<text, text_off>>
    /\ UNCHANGED <<envVars, monVars, size, from_pos, runVars, frontier>>

\* parsed, speed = _parse_chunk(text); _merge(self.state, parsed);
\* if speed is not None: self.current_speed_mbps = speed
ParseAndMerge(chunk) ==
    /\ state' = Merge(state, ParseChunk(chunk).out)
    /\ current_speed_mbps' = NewSpeed(current_speed_mbps, ParseChunk(chunk).speed)

\* "if text:" of _tick, lines 232 and 239
IfText(chunk) ==
    IF chunk # <<>> THEN ParseAndMerge(chunk)
    ELSE UNCHANGED <<state, current_speed_mbps>>

\* The locals of a call are gone when it has used them.
DropLocals == text' = <<>> /\ size' = 0 /\ from_pos' = 0 /\ text_off' = 0

LoadTailIsfile == TailIsfile("li_tail_isfile", "li_tail_size", "li_parse")
LoadTailSize == TailSize("li_tail_size", "li_tail_open")
LoadTailOpen == TailOpen("li_tail_open", TAIL_BYTES, "li_parse")

\* _load_initial lines 219-222
LoadParse ==
    /\ pc = "li_parse"
    /\ ParseAndMerge(text)
    /\ frontier' = text_off + Len(text)
    /\ pc' = "li_pos_isfile"
    /\ DropLocals
    /\ UNCHANGED <<envVars, read_pos, runVars>>

\* _load_initial line 223: ... if os.path.isfile(self.log_path) else 0
LoadPosIsfile ==
    /\ pc = "li_pos_isfile"
    /\ IF exists
       THEN pc' = "li_pos_size" /\ UNCHANGED read_pos
       ELSE pc' = LoopNext(i, num_reports) /\ read_pos' = 0
    /\ UNCHANGED <<envVars, state, current_speed_mbps, locVars, runVars,
                   frontier>>

\* _load_initial line 223: self.read_pos = os.path.getsize(self.log_path)
LoadPosSize ==
    /\ pc = "li_pos_size"
    /\ IF exists
       THEN pc' = LoopNext(i, num_reports) /\ read_pos' = Len(file)
       ELSE pc' = "raised" /\ UNCHANGED read_pos
    /\ UNCHANGED <<envVars, state, current_speed_mbps, locVars, runVars,
                   frontier>>

\* _tick line 231, the call, and _read_from lines 57-58
ReadFromIsfile ==
    /\ pc = "t_rf_isfile"
    /\ from_pos' = read_pos
    /\ IF exists
       THEN pc' = "t_rf_size" /\ UNCHANGED <<text, text_off>>
       ELSE pc' = "t_merge1" /\ text' = <<>> /\ text_off' = read_pos
    /\ UNCHANGED <<envVars, monVars, size, runVars, frontier>>

\* _read_from lines 59-61
ReadFromSize ==
    /\ pc = "t_rf_size"
    /\ IF ~exists
       THEN pc' = "raised" /\ UNCHANGED <<size, text, read_pos, text_off>>
       ELSE /\ size' = Len(file)
            /\ IF NoNewData(from_pos, Len(file))
               THEN /\ pc' = "t_merge1"
                    /\ text' = <<>>
                    /\ read_pos' = NoNewDataPos(from_pos, Len(file))
                    /\ text_off' = NoNewDataPos(from_pos, Len(file))
               ELSE pc' = "t_rf_open" /\ UNCHANGED <<text, read_pos, text_off>>
    /\ UNCHANGED <<envVars, state, current_speed_mbps, from_pos, runVars,
                   frontier>>

\* _read_from lines 62-66, and the assignment of line 231
ReadFromOpen ==
    /\ pc = "t_rf_open"
    /\ IF exists
       THEN /\ pc' = "t_merge1"
            /\ text' = ReadFromText(file, from_pos)
            /\ text_off' = SeekAndSkip(file, from_pos)
            /\ read_pos' = ReadFromPos(from_pos, size)
       ELSE pc' = "raised" /\ UNCHANGED <<text, read_pos, text_off>>
    /\ UNCHANGED <<envVars, state, current_speed_mbps, size, from_pos, runVars,
                   frontier>>

\* The offset after the last "\n" of a text that begins at offset off.
AfterLastNewline(chunk, off) ==
    LET nls == {q \in DOMAIN chunk : chunk[q].k = "NL"}
    IN  IF nls = {} THEN off ELSE off + CHOOSE q \in nls : \A r \in nls : r <= q

\* _tick lines 232-236
TickMergeNew ==
    /\ pc = "t_merge1"
    /\ IfText(text)
    /\ frontier' = IF text = <<>> THEN frontier
                   ELSE Max(frontier, AfterLastNewline(text, text_off))
    /\ pc' = "t_tail_isfile"
    /\ DropLocals
    /\ UNCHANGED <<envVars, read_pos, runVars>>

TickTailIsfile == TailIsfile("t_tail_isfile", "t_tail_size", "t_merge2")
TickTailSize == TailSize("t_tail_size", "t_tail_open")
TickTailOpen == TailOpen("t_tail_open", TAIL_BEFORE_REPORT_BYTES, "t_merge2")

\* _tick lines 239-243
TickMergeTail ==
    /\ pc = "t_merge2"
    /\ IfText(text)
    /\ pc' = "t_report"
    /\ DropLocals
    /\ UNCHANGED <<envVars, read_pos, runVars, frontier>>

\* _tick line 244: the report is returned to run
TickReport ==
    /\ pc = "t_report"
    /\ report' = BuildReport(state, current_speed_mbps)
    /\ pc' = "print"
    /\ UNCHANGED <<envVars, monVars, locVars, i, num_reports, loads, frontier>>

\* run lines 263-264 and 258: the report is printed, the loop goes on
PrintReport ==
    /\ pc = "print"
    /\ report' = <<>>
    /\ i' = i + 1
    /\ pc' = LoopNext(i + 1, num_reports)
    /\ UNCHANGED <<envVars, monVars, locVars, num_reports, loads, frontier>>

Next ==
    \/ WriterAppend
    \/ WriterFinish
    \/ Truncate
    \/ Delete
    \/ RunStart
    \/ LoadTailIsfile
    \/ LoadTailSize
    \/ LoadTailOpen
    \/ LoadParse
    \/ LoadPosIsfile
    \/ LoadPosSize
    \/ ReadFromIsfile
    \/ ReadFromSize
    \/ ReadFromOpen
    \/ TickMergeNew
    \/ TickTailIsfile
    \/ TickTailSize
    \/ TickTailOpen
    \/ TickMergeTail
    \/ TickReport
    \/ PrintReport

Spec == Init /\ [][Next]_vars

(***************************************************************************)
(* The chunk specification: the monitor's memory under any sequence of      *)
(* chunks.  A chunk is parsed and merged as _tick does with the text a read *)
(* returned (lines 232-236), then the report is built (line 244); the file  *)
(* and the reader are left out, the text is any chunk of Chunks.            *)
(***************************************************************************)
InitChunks ==
    /\ file = <<>>
    /\ exists = TRUE
    /\ pending = <<>>
    /\ shrinks = 0
    /\ written = 0
    /\ pc = "c_read"
    /\ num_reports = 0
    /\ Fresh

\* text, self.read_pos = _read_from(...) returned the chunk
ChunkRead ==
    /\ pc = "c_read"
    /\ \E c \in Chunks : text' = c
    /\ pc' = "c_merge"
    /\ UNCHANGED <<envVars, monVars, size, from_pos, text_off, runVars,
                   frontier>>

\* _tick lines 232-236
ChunkMerge ==
    /\ pc = "c_merge"
    /\ IfText(text)
    /\ pc' = "c_report"
    /\ text' = <<>>
    /\ UNCHANGED <<envVars, read_pos, size, from_pos, text_off, runVars,
                   frontier>>

\* _tick line 244
ChunkReport ==
    /\ pc = "c_report"
    /\ report' = BuildReport(state, current_speed_mbps)
    /\ pc' = "c_print"
    /\ UNCHANGED <<envVars, monVars, locVars, i, num_reports, loads, frontier>>

\* run lines 263-264
ChunkPrint ==
    /\ pc = "c_print"
    /\ report' = <<>>
    /\ pc' = "c_read"
    /\ UNCHANGED <<envVars, monVars, locVars, i, num_reports, loads, frontier>>

NextChunks == ChunkRead \/ ChunkMerge \/ ChunkReport \/ ChunkPrint

SpecChunks == InitChunks /\ [][NextChunks]_vars

(***************************************************************************)
(* The parse specification: _parse_chunk and _merge as functions.  The text *)
(* is any chunk of ParseChunks, the memory before it any of PriorStates     *)
(* (what the monitor holds after a first chunk); the text is parsed and     *)
(* merged as lines 232-236 do, then the report is built (line 244).         *)
(***************************************************************************)
MaxParseLines == 2

\* The lines of the texts handed to _parse_chunk.
ParseVocab ==
    { <<TS, StartingUpdate(1, 0), Digit(5), Digit(0), NL>>,
      <<TS, StateChanged(1), Kw("Downloading"), NL>>,
      <<TS, StateChanged(1), Kw("Suspended"), NL>>,
      <<TS, StateChanged(1), Kw("downloading"), NL>>,
      <<TS, StateChanged(1), Kw("Downloading"), Kw("Suspended"), NL>>,
      <<TS, StateChanged(1), Kw("Downloading"), Kw("fully installed"), NL>>,
      <<TS, AppUpdateChanged(2), Kw("Suspended"), Kw("Fully Installed"), NL>>,
      <<TS, AppUpdateChanged(2), Kw("Update Required"), NL>>,
      <<TS, UpdateCanceled(1), Kw("Suspended"), NL>>,
      <<TS, UpdateCanceled(2), Kw("Update Required"), NL>>,
      <<TS, Kw("Update Required"), NL>>,
      <<TS, StateChanged(1), NL>>,
      <<TS, Rate(1250), NL>>,
      <<TS, Rate(0), NL>>,
      <<TS, FinishedUpdate(1), NL>>,
      <<TS, UpdateStarted(2, 1), Digit(7), Kw("Fully Installed"), NL>>,
      <<TS, Rate(300), StateChanged(1), Kw("Suspended"), NL>> }

RECURSIVE ParseChunksOf(_)
ParseChunksOf(n) ==
    IF n = 0 THEN {}
    ELSE ParseChunksOf(n - 1)
         \cup {c \o l : c \in ParseChunksOf(n - 1), l \in ParseVocab}
         \cup ParseVocab

\* The texts: one to MaxParseLines lines.
ParseChunks == ParseChunksOf(MaxParseLines)

\* The first chunks: what the monitor has read before the text.
PriorChunks ==
    { <<>>,
      <<TS, StartingUpdate(1, 0), Digit(5), Digit(0), NL,
        TS, StateChanged(1), Kw("Downloading"), NL>>,
      <<TS, UpdateStarted(2, 1), Digit(7), NL,
        TS, AppUpdateChanged(2), Kw("Suspended"), NL>>,
      <<TS, StartingUpdate(1, 0), Digit(5), Digit(0), NL,
        TS, StateChanged(1), Kw("Suspended"), NL, TS, Rate(1250), NL>> }

InitParse ==
    /\ file = <<>>
    /\ exists = TRUE
    /\ pending = <<>>
    /\ shrinks = 0
    /\ written = 0
    /\ pc = "p_parse"
    /\ num_reports = 0
    /\ read_pos = 0
    /\ \E c \in PriorChunks :
          /\ state = Merge(EmptyDict, ParseChunk(c).out)
          /\ current_speed_mbps = NewSpeed(None, ParseChunk(c).speed)
    /\ text \in ParseChunks
    /\ size = 0
    /\ from_pos = 0
    /\ text_off = 0
    /\ i = 0
    /\ report = <<>>
    /\ loads = 0
    /\ frontier = 0

\* _tick lines 232-236, the text kept
ParseMergeStep ==
    /\ pc = "p_parse"
    /\ IfText(text)
    /\ pc' = "p_report"
    /\ UNCHANGED <<envVars, read_pos, locVars, runVars, frontier>>

\* _tick line 244
ParseReportStep ==
    /\ pc = "p_report"
    /\ report' = BuildReport(state, current_speed_mbps)
    /\ pc' = "p_done"
    /\ UNCHANGED <<envVars, monVars, locVars, i, num_reports, loads, frontier>>

NextParse == ParseMergeStep \/ ParseReportStep

SpecParse == InitParse /\ [][NextParse]_vars

(***************************************************************************)
(* The quiet specification: run on a log that the writer has finished and   *)
(* that nothing changes any more.  The file is any sequence of complete     *)
(* lines of WriterLines of at most MaxWritten tokens.                       *)
(***************************************************************************)
RECURSIVE FilesOf(_)
FilesOf(n) ==
    IF n = 0 THEN {<<>>}
    ELSE FilesOf(n - 1)
         \cup {f \o l : f \in FilesOf(n - 1), l \in WriterLines}

QuietFiles == {f \in FilesOf(MaxWritten \div 3) : Len(f) <= MaxWritten}

InitQuiet ==
    /\ file \in QuietFiles
    /\ exists = TRUE
    /\ pending = <<>>
    /\ shrinks = 0
    /\ written = Len(file)
    /\ pc = "run"
    /\ num_reports \in 1..MaxReports
    /\ Fresh

\* The steps of run.  The cursor is the size of the file after the load, so
\* _read_from returns on line 61 and its open (ReadFromOpen) is never reached.
NextQuiet ==
    \/ RunStart
    \/ LoadTailIsfile
    \/ LoadTailSize
    \/ LoadTailOpen
    \/ LoadParse
    \/ LoadPosIsfile
    \/ LoadPosSize
    \/ ReadFromIsfile
    \/ ReadFromSize
    \/ TickMergeNew
    \/ TickTailIsfile
    \/ TickTailSize
    \/ TickTailOpen
    \/ TickMergeTail
    \/ TickReport
    \/ PrintReport

SpecQuiet == InitQuiet /\ [][NextQuiet]_vars

(***************************************************************************)
(* Properties.                                                              *)
(***************************************************************************)

\* The loop state _parse_chunk starts with.
AccZero ==
    [out |-> EmptyDict, last_speed_mbps |-> None, last_nonzero_speed_mbps |-> None]

\* The branches taken by the lines of a chunk that touch entity id.
Mentions(chunk, id) ==
    LET ls == SplitLines(chunk)
    IN  {Classify(RestOf(ls[k])) :
            k \in {j \in DOMAIN ls :
                      /\ TimestampMatches(ls[j])
                      /\ id \in DOMAIN ParseLine(AccZero, ls[j]).out}}

OnlyStatus(chunk, id) ==
    Mentions(chunk, id) # {} /\ Mentions(chunk, id) \subseteq {"State", "Completion"}

OnlyProgress(chunk, id) == Mentions(chunk, id) = {"Progress"}

\* C1: parsing a chunk and merging it keeps the prior downloaded/total of an
\* entity the chunk mentions only by state or completion lines, and the prior
\* paused/downloading of an entity it mentions only by progress lines.
C1_FieldPreservation ==
    [][pc = "c_merge" =>
        \A id \in DOMAIN state :
            /\ OnlyStatus(text, id) =>
                  /\ state'[id].downloaded = state[id].downloaded
                  /\ state'[id].total = state[id].total
            /\ OnlyProgress(text, id) =>
                  /\ state'[id].paused = state[id].paused
                  /\ state'[id].downloading = state[id].downloading]_vars

\* The offsets at which a complete, "\n"-terminated line of f begins.
CompleteLineStarts(f) ==
    {s \in 0..(Len(f) - 1) :
        /\ s = 0 \/ f[s].k = "NL"
        /\ \E q \in (s + 1)..Len(f) : f[q].k = "NL"}

\* C2: when a _read_from of a tick has returned (and the file never shrank),
\* every complete line appended since the initial tail read that lies before
\* the new cursor, so that no later _read_from can return it, is in the text
\* some _read_from returned: none lies between the frontier of what was read
\* and the start of the text just returned.
C2_AppendedLinesAreRead ==
    (pc = "t_merge1" /\ shrinks = 0) =>
        \A s \in CompleteLineStarts(file) :
            (frontier <= s /\ s < read_pos) => text_off <= s

\* C3: the cursor never decreases, whatever the writer does to the file.
C3_CursorMonotone == [][read_pos' >= read_pos]_vars

\* _read_from has returned at a cursor beyond the end of a file that shrank.
C3_Witness ==
    pc = "t_merge1" /\ shrinks > 0 /\ exists /\ read_pos > Len(file)

\* C4: while the file has never shrunk, the cursor is at most its size.
C4_CursorWithinFile ==
    shrinks = 0 => read_pos <= (IF exists THEN Len(file) ELSE 0)

\* _read_from has advanced the cursor while the file had already grown on.
C4_Witness ==
    /\ pc = "t_merge1" /\ shrinks = 0
    /\ from_pos < read_pos /\ read_pos < Len(file)

\* C5: the driver never raises, whenever the file is deleted.
C5_NeverRaises == pc # "raised"

ParsePoints == {"li_parse", "t_merge1", "t_merge2"}

\* The last piece splitlines() makes of a text.
LastPiece(chunk) == SplitLines(chunk)[Len(SplitLines(chunk))]

\* C6: a text handed to the parser that ends in a torn line (no "\n" ends it)
\* has no event derived from that line.
C6_NoTornLineParsed ==
    (pc \in ParsePoints /\ text # <<>> /\ text[Len(text)].k # "NL") =>
        \/ ~TimestampMatches(LastPiece(text))
        \/ Classify(RestOf(LastPiece(text))) = "NoMatch"

\* C7: with the log missing when run starts, run ends at once, and there it
\* has loaded nothing, ticked never, reported nothing and left the monitor's
\* memory as constructed.
C7_MissingLogIsFatal ==
    /\ [][(pc = "run" /\ ~exists /\ pc' # "run") => pc' = "not_found"]_vars
    /\ [][pc = "not_found" => pc' = "not_found"]_vars
    /\ [](pc = "not_found" =>
            /\ loads = 0 /\ i = 0 /\ report = <<>>
            /\ state = EmptyDict /\ read_pos = 0 /\ current_speed_mbps = None)

C7_Witness == pc = "not_found" /\ ~exists

TickSteps ==
    {"t_rf_isfile", "t_rf_size", "t_rf_open", "t_merge1", "t_tail_isfile",
     "t_tail_size", "t_tail_open", "t_merge2", "t_report", "print"}

\* C8: a run that found the log loads once and before any tick, and when it
\* is over it has reached Done after exactly num_reports ticks.
C8_RunReachesDone ==
    /\ pc \in TickSteps => loads = 1 /\ i < num_reports
    /\ pc \in {"done", "raised"} => pc = "done" /\ loads = 1 /\ i = num_reports

\* C9: _read_from called with a cursor at or beyond the file's size returns
\* no text and the same cursor, and the tick's first merge then changes
\* neither the state nor the rate.
C9_NoNewDataIsNotAnError ==
    /\ []((pc = "t_merge1" /\ from_pos >= size) =>
            (text = <<>> /\ read_pos = from_pos))
    /\ [][(pc = "t_merge1" /\ text = <<>>) =>
            (state' = state /\ current_speed_mbps' = current_speed_mbps)]_vars

\* _read_from has returned with a cursor at the size of a file that has data.
C9_Witness ==
    pc = "t_merge1" /\ exists /\ from_pos = size /\ size > 0 /\ state # EmptyDict

\* The entries of a report: its "Name" lines.
IsNameLine(r) == r.line = "Name"
Listed(rep) == SelectSeq(rep, IsNameLine)

\* C10: the report lists exactly the entities that are paused or downloading
\* and not paused, each once, by ascending id.
C10_ReportLists ==
    pc = "c_print" =>
        LET ids == Listed(report)
        IN  /\ {ids[k].id : k \in DOMAIN ids} =
                 {a \in DOMAIN state :
                     state[a].paused \/ (state[a].downloading /\ ~state[a].paused)}
            /\ \A j, k \in DOMAIN ids : j < k => ids[j].id < ids[k].id

\* A report of two entries while a third, finished entity is in the state.
C10_Witness ==
    /\ pc = "c_print"
    /\ Len(Listed(report)) = 2
    /\ \E a \in DOMAIN state : ~state[a].paused /\ ~state[a].downloading

\* C11: the report begins with the "no active downloads" line exactly when no
\* entity is downloading and not paused; with no entity downloading or paused
\* it is that line alone; with paused entities only, the line comes first and
\* the paused entries follow it.
C11_NoActiveNotice ==
    pc = "c_print" =>
        LET transferring == {a \in DOMAIN state :
                                state[a].downloading /\ ~state[a].paused}
            pausedIds == {a \in DOMAIN state : state[a].paused}
        IN  /\ Len(report) >= 1
            /\ (report[1] = NoActiveLine) <=> (transferring = {})
            /\ (transferring = {} /\ pausedIds = {}) => report = <<NoActiveLine>>
            /\ (transferring = {} /\ pausedIds # {}) =>
                  /\ Len(report) = 1 + 2 * Cardinality(pausedIds)
                  /\ \A k \in 2..Len(report) :
                        report[k].line # "NoActive" /\ report[k].id \in pausedIds
                  /\ {report[k].id : k \in 2..Len(report)} = pausedIds

\* A report of the notice and two paused entries.
C11_Witness ==
    /\ pc = "c_print"
    /\ report[1] = NoActiveLine
    /\ Len(report) = 5
    /\ \E a \in DOMAIN state : ~state[a].paused /\ ~state[a].downloading

\* The rates of a text, in the order of its lines: the lines that begin with
\* a timestamp and hold a "Current download rate".
RateLines(chunk) ==
    LET ls == SplitLines(chunk)
    IN  {j \in DOMAIN ls :
            /\ Len(ls[j]) > 0 /\ ls[j][1] = TS
            /\ \E p \in 2..Len(ls[j]) : ls[j][p].k = "Rate"}

RateOfLine(chunk, j) ==
    LET l == SplitLines(chunk)[j]
    IN  l[CHOOSE p \in 2..Len(l) :
            l[p].k = "Rate" /\ \A q \in 2..(p - 1) : l[q].k # "Rate"].n

Last(S) == CHOOSE x \in S : \A y \in S : y <= x

\* The reading the claim expects of a text.
ExpectedRate(chunk) ==
    LET nz == {j \in RateLines(chunk) : RateOfLine(chunk, j) > 0}
    IN  IF nz # {} THEN Some(RateOfLine(chunk, Last(nz)))
        ELSE IF RateLines(chunk) # {}
        THEN Some(RateOfLine(chunk, Last(RateLines(chunk))))
        ELSE None

RECURSIVE JoinLines(_, _, _)
JoinLines(ls, k, skip) ==
    IF k > Len(ls) THEN <<>>
    ELSE (IF k = skip THEN <<>> ELSE Append(ls[k], NL)) \o JoinLines(ls, k + 1, skip)

\* A text without its j-th line.
WithoutLine(chunk, j) == JoinLines(SplitLines(chunk), 1, j)

StatusWords ==
    {"Downloading", "downloading", "Suspended", "Fully Installed",
     "fully installed", "Update Required"}

\* A remainder no pattern of monitor.py matches: words and digits only, or
\* a state / update-canceled prefix that no text follows.
Unrecognized(rest) ==
    \/ \A p \in DOMAIN rest : rest[p].k \in StatusWords \cup {"Digit"}
    \/ /\ Len(rest) = 1
       /\ rest[1].k \in {"StateChanged", "AppUpdateChanged", "UpdateCanceled"}

\* "AppID <id> update canceled : <words>"
IsCanceledLine(rest) ==
    /\ Len(rest) > 1
    /\ rest[1].k = "UpdateCanceled"
    /\ \A p \in 2..Len(rest) : rest[p].k \in StatusWords

\* The lines of a text that begin with a timestamp.
Stamped(chunk) ==
    {j \in DOMAIN SplitLines(chunk) :
        Len(SplitLines(chunk)[j]) > 0 /\ SplitLines(chunk)[j][1] = TS}

Restrict(parsed, K) ==
    [a \in DOMAIN parsed |-> [key \in K |-> parsed[a][key]]]

\* C14: merging a snapshot a second time changes nothing: the snapshot the
\* parser made of the text, and every partial update cut out of it.
C14_MergeIdempotent ==
    [][pc = "p_parse" =>
        /\ Merge(state', ParseChunk(text).out) = state'
        /\ \A K \in SUBSET {"downloaded", "total", "paused", "downloading"} :
              LET P == Restrict(ParseChunk(text).out, K)
              IN  Merge(Merge(state, P), P) = Merge(state, P)]_vars

\* A progress line has been merged onto a state that held its entity.
C14_Witness ==
    /\ pc = "p_report"
    /\ text = <<TS, UpdateStarted(2, 1), Digit(7), Kw("Fully Installed"), NL,
                TS, StartingUpdate(1, 0), Digit(5), Digit(0), NL>>
    /\ DOMAIN state = {1, 2}
    /\ state[1].total = 50

\* The max_bytes of the _read_tail that has returned at a position.
MaxBytesAt(at) == IF at = "li_parse" THEN TAIL_BYTES ELSE TAIL_BEFORE_REPORT_BYTES

\* C15: a text _read_tail returns from a start = size - max_bytes > 0 is the
\* file from right after one of its "\n" on: its first line is no fragment.
C15_TailStartsAtLine ==
    (/\ pc \in {"li_parse", "t_merge2"}
     /\ size - MaxBytesAt(pc) > 0
     /\ text # <<>>) =>
        \E o \in 1..Len(file) :
            file[o].k = "NL" /\ text = SubSeq(file, o + 1, Len(file))

\* _read_tail has returned text from a start that fell inside a line.
C15_Witness ==
    /\ pc = "t_merge2"
    /\ size - TAIL_BEFORE_REPORT_BYTES > 0
    /\ size = Len(file)
    /\ file[size - TAIL_BEFORE_REPORT_BYTES].k # "NL"
    /\ file[size - TAIL_BEFORE_REPORT_BYTES + 1].k # "NL"
    /\ text # <<>>

\* The first j lines of a text.
PrefixLines(chunk, j) == JoinLines(SubSeq(SplitLines(chunk), 1, j), 1, 0)

\* "AppID <id> state changed : <words>" or "... App update changed : <words>"
\* with "Downloading" or "suspended" among the words and no "fully installed".
IsKeywordStateLine(rest) ==
    /\ Len(rest) > 1
    /\ rest[1].k \in {"StateChanged", "AppUpdateChanged"}
    /\ \A p \in 2..Len(rest) :
          rest[p].k \in StatusWords \ {"Fully Installed", "fully installed"}
    /\ \E p \in 2..Len(rest) : rest[p].k \in {"Downloading", "Suspended"}

\* The pair the claim gives the text of a state line.
ExpectedPair(rest) ==
    IF /\ \E p \in 2..Len(rest) : rest[p].k = "Downloading"
       /\ ~\E p \in 2..Len(rest) : rest[p].k = "Suspended"
    THEN [downloading |-> TRUE, paused |-> FALSE]
    ELSE [downloading |-> FALSE, paused |-> TRUE]

PairOf(info) == [downloading |-> info.downloading, paused |-> info.paused]

\* A line that is no status line for id: it does not name id, or it is a
\* progress line, or a state line without any of the status keywords.
NoStatusLineFor(rest, id) ==
    \/ ~\E p \in DOMAIN rest :
          /\ rest[p].id = id
          /\ rest[p].k \in {"StateChanged", "AppUpdateChanged", "UpdateCanceled",
                             "FinishedUpdate", "UpdateStarted"}
    \/ /\ Len(rest) > 1
       /\ rest[1].k \in {"StartingUpdate", "UpdateStarted"}
       /\ \A p \in 2..Len(rest) : rest[p].k = "Digit"
    \/ /\ rest[1].k \in {"StateChanged", "AppUpdateChanged"}
       /\ \A p \in 2..Len(rest) : rest[p].k \in {"downloading", "Update Required"}

IsPlainStateLine(rest) ==
    /\ Len(rest) > 1
    /\ rest[1].k \in {"StateChanged", "AppUpdateChanged"}
    /\ \A p \in 2..Len(rest) : rest[p].k \in {"downloading", "Update Required"}

\* The lines of a text that name the entity id.
LinesNaming(chunk, id) ==
    {j \in Stamped(chunk) :
        \E p \in DOMAIN SplitLines(chunk)[j] : SplitLines(chunk)[j][p].id = id}

\* C17: when the only line of a text for an id is a state line without any
\* of the keywords, parsing and merging the text leaves the entity's
\* downloading and paused as they were (both false if it was not there).
C17_PlainStateKeepsPair ==
    [][pc = "p_parse" =>
        \A id \in 1..3 :
            (/\ Cardinality(LinesNaming(text, id)) = 1
             /\ \A j \in LinesNaming(text, id) :
                   IsPlainStateLine(RestOf(SplitLines(text)[j]))) =>
                /\ id \in DOMAIN state'
                /\ PairOf(state'[id]) =
                      (IF id \in DOMAIN state THEN PairOf(state[id])
                       ELSE [downloading |-> FALSE, paused |-> FALSE])]_vars

\* The snapshot after the first j lines of a text.
OutAfter(chunk, j) == ParseChunk(PrefixLines(chunk, j)).out

\* The record a snapshot holds for id, the zero record if it holds none.
RecordOf(out, id) == IF id \in DOMAIN out THEN out[id] ELSE EmptyApp

HasRateWord(rest) == \E p \in DOMAIN rest : rest[p].k = "Rate"

\* The places of a remainder where "AppID <id> ... Fully Installed" (any
\* letter case) or "AppID <id> finished update" begins.
CompletionPlaces(rest) ==
    {p \in DOMAIN rest :
        \/ rest[p].k = "FinishedUpdate"
        \/ /\ rest[p].k \in {"UpdateStarted", "StateChanged", "AppUpdateChanged",
                               "UpdateCanceled"}
           /\ \E q \in (p + 1)..Len(rest) :
                 rest[q].k \in {"Fully Installed", "fully installed"}}

\* The id of the least place of S in rest.
FirstIdAt(rest, S) == rest[CHOOSE p \in S : \A q \in S : p <= q].id

\* "... AppID <id> ...: download <a> / <b>" in a remainder
ProgressPlaces(rest) ==
    {p \in DOMAIN rest :
        /\ rest[p].k \in {"StartingUpdate", "UpdateStarted"}
        /\ p < Len(rest) /\ rest[p + 1].k = "Digit"}

\* C18: a timestamped line is at most one event, the first of rate,
\* completion, progress, state that matches: a line with a rate changes no
\* entity; else a line with the completion pattern, a "state changed" line
\* with "Fully Installed" in any letter case among them, leaves its id not
\* downloading and not paused whatever other keywords it holds, the counters
\* untouched; else a progress line sets the counters of its id and leaves
\* the pair.
C18_LinePriority ==
    [][pc = "p_parse" =>
        \A j \in Stamped(text) :
            LET rest == RestOf(SplitLines(text)[j])
                prev == OutAfter(text, j - 1)
                cur == OutAfter(text, j)
                cid == FirstIdAt(rest, CompletionPlaces(rest))
                pid == FirstIdAt(rest, ProgressPlaces(rest))
            IN  /\ DOMAIN prev \subseteq DOMAIN cur
                /\ Cardinality({a \in DOMAIN cur :
                                   a \notin DOMAIN prev \/ cur[a] # prev[a]}) <= 1
                /\ HasRateWord(rest) => cur = prev
                /\ (~HasRateWord(rest) /\ CompletionPlaces(rest) # {}) =>
                      /\ cur = [a \in DOMAIN prev \cup {cid} |->
                                  IF a = cid
                                  THEN [RecordOf(prev, cid) EXCEPT
                                           !.paused = FALSE, !.downloading = FALSE]
                                  ELSE prev[a]]
                      /\ j = Len(SplitLines(text)) =>
                            ~state'[cid].paused /\ ~state'[cid].downloading
                /\ (/\ ~HasRateWord(rest) /\ CompletionPlaces(rest) = {}
                    /\ ProgressPlaces(rest) # {}) =>
                      /\ DOMAIN cur = DOMAIN prev \cup {pid}
                      /\ PairOf(cur[pid]) = PairOf(RecordOf(prev, pid))]_vars

\* A ",Downloading," state line, then a "state changed" line that holds
\* "Downloading" and "fully installed", have been parsed and merged.
C18_Witness ==
    /\ pc = "p_report"
    /\ text = <<TS, StateChanged(1), Kw("Downloading"), NL,
                TS, StateChanged(1), Kw("Downloading"), Kw("fully installed"), NL>>
    /\ ~state[1].paused /\ ~state[1].downloading

\* C19: no entity of the state is paused and downloading at once, whatever
\* chunks have been parsed and merged.
C19_NeverPausedAndDownloading ==
    \A a \in DOMAIN state : ~(state[a].paused /\ state[a].downloading)

\* A chunk that first suspends an entity and then reports it downloading
\* has been merged, while another entity is paused.
C19_Witness ==
    /\ pc = "c_report"
    /\ \E a \in DOMAIN state : state[a].downloading
    /\ \E a \in DOMAIN state : state[a].paused
    /\ Cardinality(DOMAIN state) = 3

\* C20: on a log that does not change, no step of a tick changes the state,
\* the rate or the cursor that the initial load left.
C20_QuietTickChangesNothing ==
    [][(pc \in TickSteps) =>
        (state' = state /\ current_speed_mbps' = current_speed_mbps
         /\ read_pos' = read_pos)]_vars

====
